---- MODULE Spec2Model ----
(***************************************************************************)
(* A model of bse/src/bhav_copy.py: the Source date iteration, the         *)
(* ExponentialBackoff controller, the per-batch fetch loop _download and   *)
(* the recursive retry orchestration download.                             *)
(*                                                                         *)
(* Two specifications share the variables:                                 *)
(*   Spec     a call download(tasks, dest_dir) with attempt = 1, the HTTP  *)
(*            responses and the file system's failures being chosen by the *)
(*            environment at every GET;                                    *)
(*   SpecSrc  a call EquitySource().urls_for_range(start_date, end_date),  *)
(*            consumed to exhaustion.                                      *)
(* Further specifications, defined where they are used, run the parts in   *)
(* isolation: SpecFeed, SpecBackoff.                                       *)
(***************************************************************************)
EXTENDS Integers, Sequences, FiniteSets, TLC

VARIABLES
    codes,      \* the status codes the server answers with during this call
    tasks,      \* the batch given to the top-level download: a sequence of (url, dated_file)
    stack,      \* the active download() calls, outermost first; the last one is running
    ret,        \* the (fails, successes) pair returned by the call that just returned, or None
    pc,         \* "run", "done" (top-level download returned), "raised" (an exception escaped), "idle"
    disk,       \* content of each destination path: a body, Absent or Partial
    out,        \* lines printed on stdout, in order
    hist,       \* history: for every task of the batch, the outcomes of its GETs, in order
    npass,      \* history: number of _download passes started
    calls,      \* history: the backoff() and wait() calls made, in order
    start_date, \* urls_for_range: arguments and loop variable, as proleptic Gregorian ordinals
    end_date,
    current_date,
    yielded,    \* urls_for_range: the items yielded so far
    gen,        \* urls_for_range: "run" while the generator can be resumed, "stop" once exhausted, "idle"
    source,     \* the source object whose urls_for_range is running, or NoSource
    unpacked,   \* the (item, dated_file) pairs the for loop of _download has taken from yielded
    exp_back    \* an ExponentialBackoff object used on its own, or NoBackoff

vars == <<codes, tasks, stack, ret, pc, disk, out, hist, npass, calls,
          start_date, end_date, current_date, yielded, gen, source, unpacked, exp_back>>

feedvars == <<source, unpacked, exp_back>>
dlvars  == <<codes, tasks, stack, ret, pc, disk, out, hist, npass, calls>>
srcvars == <<start_date, end_date, current_date, yielded, gen>>

----------------------------------------------------------------------------
(* Bounds of the model.                                                    *)

MaxTasks == 2       \* longest batch given to download
MaxDays  == 8       \* width of the window the dates of urls_for_range are drawn from
MaxCalls == 10      \* longest sequence of backoff() and wait() calls on one controller

(* Values the environment draws from.                                      *)

URLs     == {"u1", "u2"}
Files    == {"f1", "f2"}
Bodies   == {"b1", "b2"}
Transient == {401, 500}   \* the status of the server's transient refusals: one per call
                          \* (both are retried alike; only 401 reaches backoff())
DestDir  == "dest"

None    == <<>>           \* Python's None, where a path or a returned pair may stand
Absent  == "Absent"       \* no file at that path
Old     == "old"          \* content a destination file had before the call
Partial == "Partial"      \* a file truncated by open(.., 'wb') whose writing did not complete
NoBody  == ""             \* history entry of a GET whose body was not read

----------------------------------------------------------------------------
(* Sequence helpers.                                                       *)

Last(s) == s[Len(s)]

Range(s) == {s[k] : k \in 1..Len(s)}

RECURSIVE SeqsUpTo(_, _)
SeqsUpTo(S, n) ==
    IF n = 0 THEN {<<>>}
    ELSE LET shorter == SeqsUpTo(S, n - 1)
         IN  shorter \cup {Append(s, x) : s \in {t \in shorter : Len(t) = n - 1}, x \in S}

----------------------------------------------------------------------------
(* DL = namedtuple('Download', ['url', 'rfile', 'lfile', 'status']).       *)
(* The field id is history: the position of the task in the top-level     *)
(* batch, carried along so that results can be traced to their task.      *)

DL(url, rfile, lfile, status, id) ==
    [url |-> url, rfile |-> rfile, lfile |-> lfile, status |-> status, id |-> id]

(* requests.Response.ok: raise_for_status() raises for 400 <= status < 600. *)
RespOk(status) == ~(400 <= status /\ status < 600)

(* path.abspath(path.join(dest_dir, dated_file)) for a plain file name.    *)
Filename(dest_dir, dated_file) == <<dest_dir, dated_file>>

Paths == {Filename(DestDir, f) : f \in Files}

----------------------------------------------------------------------------
(* class ExponentialBackoff.  Durations are in milliseconds.               *)
(*                                                                         *)
(* count is a real number: backoff() adds 1 to it and wait() multiplies it *)
(* by 0.8705.  It is kept exactly, as the coefficients of a polynomial in  *)
(* 0.8705: the sequence c stands for c[1] + c[2]*0.8705 + c[3]*0.8705^2 .. *)

ExpBackStart == 500         \* ExponentialBackoff(0.5, 64): start, 0.5 s
ExpBackLimit == 64000       \* ExponentialBackoff(0.5, 64): limit, 64 s
WaitFloor    == 10          \* wait(): max(0.01, ..), 0.01 s
DecayNum     == 8705        \* wait(): count *= 0.8705
DecayDen     == 10000

ExponentialBackoff_count_one(start, limit) == [count |-> <<1>>, start |-> start, limit |-> limit]

ExponentialBackoff(start, limit) == [count |-> <<0>>, start |-> start, limit |-> limit]

(* DecayDen * 0.8705^k, rounded down.                                      *)
RECURSIVE DecayPow(_)
DecayPow(k) == IF k = 0 THEN DecayDen ELSE (DecayPow(k - 1) * DecayNum) \div DecayDen

(* DecayDen * count, each term rounded down.                               *)
RECURSIVE CountScaled(_)
CountScaled(c) ==
    IF c = <<>> THEN 0
    ELSE c[Len(c)] * DecayPow(Len(c) - 1) + CountScaled(SubSeq(c, 1, Len(c) - 1))

CountIsInt(c) == \A k \in 2..Len(c) : c[k] = 0

Min(a, b) == IF a <= b THEN a ELSE b
Max(a, b) == IF a >= b THEN a ELSE b

(* interval: min(limit, start * 2^count), for a whole count.  2^count is   *)
(* not computed beyond the point where start * 2^count exceeds limit.      *)
RECURSIVE interval_int(_, _, _)
interval_int(start, limit, n) ==
    IF start >= limit THEN limit
    ELSE IF n = 0 THEN start
    ELSE interval_int(2 * start, limit, n - 1)

(* interval: for a fractional count the value start * 2^count is kept as   *)
(* the pair (start, count).                                                *)
interval(eb) ==
    IF CountIsInt(eb.count) THEN interval_int(eb.start, eb.limit, eb.count[1])
    ELSE IF CountScaled(eb.count) >= 7 * DecayDen THEN eb.limit
    ELSE <<"pow", eb.start, eb.count>>

backoff_sleep_after_increment(eb) ==
    interval([eb EXCEPT !.count = [@ EXCEPT ![1] = @ + 1]])

(* backoff(), line 70: time.sleep(self.interval), before count changes.    *)
backoff_sleep(eb) == interval(eb)

(* backoff(): sleep(interval); count += 1.                                 *)
backoff(eb) == [eb EXCEPT !.count = [@ EXCEPT ![1] = @ + 1]]

(* wait(): interval = max(0.01, start*count), in units of 1 / DecayDen ms. *)
wait_interval(eb) == Max(WaitFloor * DecayDen, eb.start * CountScaled(eb.count))

wait_sleeps(eb) == wait_interval(eb) > WaitFloor * DecayDen

(* wait(), line 77: time.sleep(interval), in units of 1 / DecayDen ms; 0   *)
(* when wait() does not sleep.                                             *)
wait_sleep(eb) == IF wait_sleeps(eb) THEN wait_interval(eb) ELSE 0

wait_always_decays(eb) == [eb EXCEPT !.count = <<0>> \o @]

(* wait(): if interval > 0.01: sleep(interval); count *= 0.8705.           *)
wait(eb) == IF wait_sleeps(eb) THEN [eb EXCEPT !.count = <<0>> \o @] ELSE eb

----------------------------------------------------------------------------
(* partition(pred, iterable): ([pred(x) == False], [pred(x) == True]).     *)

(* The predicate is a function on the elements of the iterable.            *)

ifilterfalse(pred, s) == SelectSeq(s, LAMBDA x : ~pred[x])
filter(pred, s)       == SelectSeq(s, LAMBDA x : pred[x])

partition(pred, iterable) == <<ifilterfalse(pred, iterable), filter(pred, iterable)>>

(* download, line 94: lambda r: r.lfile is not None                        *)
HasLfile(results) == [r \in Range(results) |-> r.lfile # None]

(* download, line 95: retryables = [f for f in fails if not f.status == 404] *)
NotFound == 404
Retryables_with_not_found(fails) == fails

Retryables(fails) == SelectSeq(fails, LAMBDA f : ~(f.status = NotFound))

(* download, line 90: retry_on_fail = attempt <= 3                         *)
MaxRetryAttempt == 3
retry_on_fail_one_more(attempt) == attempt <= MaxRetryAttempt + 1
retry_on_fail(attempt) == attempt <= MaxRetryAttempt

(* download, lines 99-100: [(r.url, r.rfile) for r in retryables]          *)
RetrySources(retryables) ==
    [k \in 1..Len(retryables) |-> <<retryables[k].url, retryables[k].rfile>>]

RetryIds(retryables) == [k \in 1..Len(retryables) |-> retryables[k].id]

(* download, lines 101-103: the merge of the recursive call's result.      *)
MergeSuccesses(successes, retry_success) == successes \o retry_success

MergeFails_keep_all(fails, retry_success) == fails

MergeFails(fails, retry_success) ==
    LET success_urls == {s.url : s \in Range(retry_success)}
    IN  SelectSeq(fails, LAMBDA f : f.url \notin success_urls)

(* download, lines 107-108: the summary line.                              *)
Summary(results, successes, fails) ==
    <<"Downloaded", Len(results), Len(successes), Len(fails)>>

(* _download, line 125: the progress line.                                 *)
Progress(i, dated_file) == <<"Processing", i, dated_file>>

----------------------------------------------------------------------------
(* The call stack of download.  A frame holds the locals of one call:      *)
(* attempt, sources, the results and exp_back of its _download, and i, the *)
(* number of sources its for loop has consumed.  ids is history: the       *)
(* positions in the top-level batch of the tasks in sources.  at is the    *)
(* position of the call: "fetch" inside _download (line 93), "call" inside *)
(* the recursive download (lines 99-100).                                  *)

Frame_shared_backoff(sources, ids, attempt) ==
    [attempt  |-> attempt,
     sources  |-> sources,
     ids      |-> ids,
     i        |-> 0,
     results  |-> <<>>,
     exp_back |-> IF attempt > 1 THEN stack[Len(stack)].exp_back
                  ELSE ExponentialBackoff(ExpBackStart, ExpBackLimit),
     at       |-> "fetch"]

Frame(sources, ids, attempt) ==
    [attempt  |-> attempt,
     sources  |-> sources,
     ids      |-> ids,
     i        |-> 0,
     results  |-> <<>>,
     exp_back |-> ExponentialBackoff(ExpBackStart, ExpBackLimit),
     at       |-> "fetch"]

Top == stack[Len(stack)]

Pop(s) == SubSeq(s, 1, Len(s) - 1)

SetTop(s, f) == [s EXCEPT ![Len(s)] = f]

Fetching == pc = "run" /\ stack # <<>> /\ Top.at = "fetch" /\ Top.i < Len(Top.sources)

(* The task the for loop of _download is about to process. *)
CurItem  == Top.sources[Top.i + 1][1]
CurFile  == Top.sources[Top.i + 1][2]
CurId    == Top.ids[Top.i + 1]

Outcome(kind, status, body, attempt) ==
    [kind |-> kind, status |-> status, body |-> body, attempt |-> attempt]

(* A call of backoff() or wait(): eb is the controller as the call found   *)
(* it, slept tells whether the call reached time.sleep and sleep is the    *)
(* argument it gave to it.                                                 *)
Call(name, eb, sleep, slept, id, attempt) ==
    [call |-> name, eb |-> eb, count |-> eb.count, sleep |-> sleep, slept |-> slept,
     task |-> id, attempt |-> attempt]

FailResult_swapped(item, dated_file, status, id) == DL(dated_file, item, None, status, id)

FailResult_with_lfile(item, dated_file, status, id) ==
    DL(item, dated_file, Filename(DestDir, dated_file), status, id)

(* _download, line 131: the result of a response that is not ok.           *)
FailResult(item, dated_file, status, id) == DL(item, dated_file, None, status, id)

(* _download, lines 136, 140: the result of a response that is ok.         *)
OkResult(item, dated_file, dest_dir, status, id) ==
    DL(item, dated_file, Filename(dest_dir, dated_file), status, id)

WriteFile_append(d, filename, body) ==
    [d EXCEPT ![filename] = IF @ = Absent THEN body ELSE Partial]

(* _download, lines 137-139: open(filename, 'wb') and the writes of the    *)
(* body's blocks: the file holds the body and nothing else.                *)
WriteFile(d, filename, body) == [d EXCEPT ![filename] = body]

(* _download, lines 128-134: the response is not ok.                       *)
RateLimited_not_found == NotFound
RateLimited == 401

FetchFail(status) ==
    /\ Fetching
    /\ ~RespOk(status)
    /\ LET f  == Top
           eb == f.exp_back
       IN  /\ stack' = SetTop(stack,
                  [f EXCEPT !.results  = Append(@, FailResult(CurItem, CurFile, status, CurId)),
                            !.exp_back = IF status = RateLimited THEN backoff(eb) ELSE eb,
                            !.i        = @ + 1])
           /\ calls' = IF status = RateLimited
                       THEN Append(calls, Call("backoff", eb, backoff_sleep(eb), TRUE, CurId, f.attempt))
                       ELSE calls
           /\ out'  = Append(out, Progress(f.i, CurFile))
           /\ hist' = [hist EXCEPT ![CurId] = Append(@, Outcome("resp", status, NoBody, f.attempt))]
    /\ UNCHANGED <<codes, tasks, ret, pc, disk, npass, srcvars, feedvars>>

(* _download, lines 128-129, 136-141: the response is ok and its body is   *)
(* written to the destination file.                                        *)
FetchOk(status, body) ==
    /\ Fetching
    /\ RespOk(status)
    /\ LET f        == Top
           eb       == f.exp_back
           filename == Filename(DestDir, CurFile)
       IN  /\ disk' = WriteFile(disk, filename, body)
           /\ stack' = SetTop(stack,
                  [f EXCEPT !.results  = Append(@, OkResult(CurItem, CurFile, DestDir, status, CurId)),
                            !.exp_back = wait(eb),
                            !.i        = @ + 1])
           /\ calls' = Append(calls, Call("wait", eb, wait_sleep(eb), wait_sleeps(eb), CurId, f.attempt))
           /\ out'  = Append(out, Progress(f.i, CurFile))
           /\ hist' = [hist EXCEPT ![CurId] = Append(@, Outcome("resp", status, body, f.attempt))]
    /\ UNCHANGED <<codes, tasks, ret, pc, npass, srcvars, feedvars>>

(* _download, line 128: requests.get raises (no connection, no response).  *)
(* Nothing catches it: it propagates out of every active download call.    *)
FetchConnError ==
    /\ Fetching
    /\ out'   = Append(out, Progress(Top.i, CurFile))
    /\ hist'  = [hist EXCEPT ![CurId] = Append(@, Outcome("conn_error", 0, NoBody, Top.attempt))]
    /\ pc'    = "raised"
    /\ stack' = <<>>
    /\ UNCHANGED <<codes, tasks, ret, disk, npass, calls, srcvars, feedvars>>

FetchIOError_swallowed(status, opened) ==
    /\ Fetching
    /\ RespOk(status)
    /\ LET filename == Filename(DestDir, CurFile)
       IN  disk' = IF opened THEN [disk EXCEPT ![filename] = Partial] ELSE disk
    /\ out'   = Append(out, Progress(Top.i, CurFile))
    /\ hist'  = [hist EXCEPT ![CurId] = Append(@, Outcome("io_error", status, NoBody, Top.attempt))]
    /\ stack' = SetTop(stack,
           [Top EXCEPT !.results = Append(@, FailResult(CurItem, CurFile, status, CurId)),
                       !.i       = @ + 1])
    /\ UNCHANGED <<codes, tasks, ret, pc, npass, calls, srcvars, feedvars>>

(* _download, lines 137-139: open() raises and leaves the file as it was,  *)
(* or a write raises after open() truncated the file.  Nothing catches it. *)
FetchIOError(status, opened) ==
    /\ Fetching
    /\ RespOk(status)
    /\ LET filename == Filename(DestDir, CurFile)
       IN  disk' = IF opened THEN [disk EXCEPT ![filename] = Partial] ELSE disk
    /\ out'   = Append(out, Progress(Top.i, CurFile))
    /\ hist'  = [hist EXCEPT ![CurId] = Append(@, Outcome("io_error", status, NoBody, Top.attempt))]
    /\ pc'    = "raised"
    /\ stack' = <<>>
    /\ UNCHANGED <<codes, tasks, ret, npass, calls, srcvars, feedvars>>

(* download, lines 93-95: _download has returned its results.              *)
PassDone == pc = "run" /\ stack # <<>> /\ Top.at = "fetch" /\ Top.i = Len(Top.sources)

Fails(f)     == partition(HasLfile(f.results), f.results)[1]
Successes(f) == partition(HasLfile(f.results), f.results)[2]

(* download, lines 97-100: the recursive call on the retryable failures.   *)
Retry ==
    /\ PassDone
    /\ LET f          == Top
           retryables == Retryables(Fails(f))
       IN  /\ retryables # <<>> /\ retry_on_fail(f.attempt)
           /\ stack' = Append(SetTop(stack, [f EXCEPT !.at = "call"]),
                              Frame(RetrySources(retryables), RetryIds(retryables), f.attempt + 1))
    /\ npass' = npass + 1
    /\ UNCHANGED <<codes, tasks, ret, pc, disk, out, hist, calls, srcvars, feedvars>>

(* download, lines 104-109: no recursive call; print the summary, return.  *)
Return ==
    /\ PassDone
    /\ LET f          == Top
           retryables == Retryables(Fails(f))
       IN  /\ ~(retryables # <<>> /\ retry_on_fail(f.attempt))
           /\ out' = Append(out, Summary(f.results, Successes(f), Fails(f)))
           /\ ret' = <<Fails(f), Successes(f)>>
    /\ stack' = Pop(stack)
    /\ pc' = IF Len(stack) = 1 THEN "done" ELSE pc
    /\ UNCHANGED <<codes, tasks, disk, hist, npass, calls, srcvars, feedvars>>

MergeReturn_returns_retry_fails ==
    /\ pc = "run" /\ stack # <<>> /\ Top.at = "call" /\ ret # None
    /\ LET f             == Top
           retry_fail    == ret[1]
           retry_success == ret[2]
           successes     == MergeSuccesses(Successes(f), retry_success)
           fails         == SelectSeq(Fails(f), LAMBDA r : r.status = NotFound) \o retry_fail
       IN  /\ out' = Append(out, Summary(f.results, successes, fails))
           /\ ret' = <<fails, successes>>
    /\ stack' = Pop(stack)
    /\ pc' = IF Len(stack) = 1 THEN "done" ELSE pc
    /\ UNCHANGED <<codes, tasks, disk, hist, npass, calls, srcvars, feedvars>>

(* download, lines 99-103, 107-109: the recursive call has returned; merge *)
(* its successes, print the summary, return.                               *)
MergeReturn ==
    /\ pc = "run" /\ stack # <<>> /\ Top.at = "call" /\ ret # None
    /\ LET f             == Top
           retry_success == ret[2]
           successes     == MergeSuccesses(Successes(f), retry_success)
           fails         == MergeFails(Fails(f), retry_success)
       IN  /\ out' = Append(out, Summary(f.results, successes, fails))
           /\ ret' = <<fails, successes>>
    /\ stack' = Pop(stack)
    /\ pc' = IF Len(stack) = 1 THEN "done" ELSE pc
    /\ UNCHANGED <<codes, tasks, disk, hist, npass, calls, srcvars, feedvars>>

----------------------------------------------------------------------------
(* Spec: download(tasks, DestDir), attempt = 1.                            *)

Tasks == URLs \X Files

Batches == SeqsUpTo(Tasks, MaxTasks)

(* One destination file exists before the call, the other does not.       *)
InitialDisk == [p \in Paths |-> IF p = Filename(DestDir, "f1") THEN Old ELSE Absent]

NoSource  == [class |-> "none"]
NoBackoff == [count |-> <<>>, start |-> 0, limit |-> 0]

SrcIdle ==
    /\ start_date = 0 /\ end_date = 0 /\ current_date = 0
    /\ yielded = <<>> /\ gen = "idle"
    /\ source = NoSource /\ unpacked = <<>> /\ exp_back = NoBackoff

Init ==
    /\ \E t \in Transient : codes = {200, 404, t}
    /\ tasks \in Batches
    /\ stack = <<Frame(tasks, [k \in 1..Len(tasks) |-> k], 1)>>
    /\ ret = None
    /\ pc = "run"
    /\ disk = InitialDisk
    /\ out = <<>>
    /\ hist = [k \in 1..Len(tasks) |-> <<>>]
    /\ npass = 1
    /\ calls = <<>>
    /\ SrcIdle

Next ==
    \/ \E status \in codes : FetchFail(status)
    \/ \E status \in codes, body \in Bodies : FetchOk(status, body)
    \/ FetchConnError
    \/ \E status \in codes, opened \in BOOLEAN : FetchIOError(status, opened)
    \/ Retry
    \/ Return
    \/ MergeReturn

Spec == Init /\ [][Next]_vars

----------------------------------------------------------------------------
(* datetime: a date is its proleptic Gregorian ordinal (date.toordinal()), *)
(* day 1 being 0001-01-01, a Monday.                                       *)

IsLeap(y) == (y % 4 = 0 /\ y % 100 # 0) \/ y % 400 = 0

DaysBeforeYear(y) == (y - 1) * 365 + (y - 1) \div 4 - (y - 1) \div 100 + (y - 1) \div 400

DaysInMonth(y, m) ==
    IF m = 2 THEN (IF IsLeap(y) THEN 29 ELSE 28)
    ELSE IF m \in {4, 6, 9, 11} THEN 30 ELSE 31

RECURSIVE DaysBeforeMonth(_, _)
DaysBeforeMonth(y, m) ==
    IF m = 1 THEN 0 ELSE DaysBeforeMonth(y, m - 1) + DaysInMonth(y, m - 1)

YearOf(n) ==
    CHOOSE y \in (n \div 366)..(n \div 365 + 1) :
        DaysBeforeYear(y) < n /\ n <= DaysBeforeYear(y + 1)

MonthOf(n) ==
    LET y == YearOf(n)
        k == n - DaysBeforeYear(y)
    IN  CHOOSE m \in 1..12 : DaysBeforeMonth(y, m) < k /\ k <= DaysBeforeMonth(y, m) + DaysInMonth(y, m)

DayOf(n) == n - DaysBeforeYear(YearOf(n)) - DaysBeforeMonth(YearOf(n), MonthOf(n))

(* date.weekday(): Monday is 0, Sunday is 6.                               *)
weekday(n) == (n + 6) % 7

(* date.strftime("%d%m%y"): day, month and the year without its century,   *)
(* each a two-digit field.                                                 *)
strftime_ddmmyy(n) == <<DayOf(n), MonthOf(n), YearOf(n) % 100>>

(* class EquitySource.                                                     *)
EquitySource == [class |-> "EquitySource"]
file_type_prefix == "eq"
file_type_suffix == "_csv.zip"
url_root         == "http://www.bseindia.com/download/BhavCopy/Equity/"

(* urlparse.urljoin(url_root, dated_file): url_root ends with a slash and  *)
(* dated_file is a plain name, so the name is appended.                    *)
urljoin(root, name) == <<root>> \o name

(* EquitySource.url_for_date *)
url_for_date(date) ==
    LET dated_file == <<file_type_prefix>> \o strftime_ddmmyy(date) \o <<file_type_suffix>>
    IN  <<urljoin(url_root, dated_file), dated_file>>

(* Source.urls_for_range, line 36: current_date.weekday() not in [5, 6]    *)
Weekend == {5, 6}
IsWeekday_sunday_only(date) == weekday(date) # 6
IsWeekday(date) == weekday(date) \notin Weekend

(* Source.urls_for_range: one turn of the while loop, on a day that is     *)
(* yielded ...                                                             *)
GenYield ==
    /\ gen = "run"
    /\ current_date < end_date
    /\ IsWeekday(current_date)
    /\ yielded' = Append(yielded, url_for_date(current_date))
    /\ current_date' = current_date + 1
    /\ UNCHANGED <<start_date, end_date, gen, dlvars, feedvars>>

(* ... and on a day that is skipped.                                       *)
GenSkip ==
    /\ gen = "run"
    /\ current_date < end_date
    /\ ~IsWeekday(current_date)
    /\ current_date' = current_date + 1
    /\ UNCHANGED <<start_date, end_date, yielded, gen, dlvars, feedvars>>

(* Source.urls_for_range: the while condition fails, the generator ends.   *)
GenStop ==
    /\ gen = "run"
    /\ ~(current_date < end_date)
    /\ gen' = "stop"
    /\ UNCHANGED <<start_date, end_date, current_date, yielded, dlvars, feedvars>>

----------------------------------------------------------------------------
(* SpecSrc: EquitySource().urls_for_range(start_date, end_date).           *)

FirstDate == 736327     \* 2016-12-29, a Thursday: the window crosses a week end and a year end

Dates == FirstDate..(FirstDate + MaxDays)

DlIdle ==
    /\ codes = {} /\ tasks = <<>> /\ stack = <<>> /\ ret = None /\ pc = "idle"
    /\ disk = InitialDisk /\ out = <<>> /\ hist = <<>> /\ npass = 0 /\ calls = <<>>

InitSrc ==
    /\ start_date \in Dates
    /\ end_date \in Dates
    /\ current_date = start_date
    /\ yielded = <<>>
    /\ gen = "run"
    /\ source = EquitySource
    /\ unpacked = <<>>
    /\ exp_back = NoBackoff
    /\ DlIdle

NextSrc == GenYield \/ GenSkip \/ GenStop

SpecSrc == InitSrc /\ [][NextSrc]_vars

----------------------------------------------------------------------------
(* Vocabulary of the properties of download.                               *)

Done == pc = "done"

TaskIds == 1..Len(tasks)

FinalFails     == ret[1]
FinalSuccesses == ret[2]

(* The positions of a returned list that hold a result of task id. *)
Occurrences(results, id) == {k \in 1..Len(results) : results[k].id = id}

InList(results, id) == Occurrences(results, id) # {}

(* The GETs of task id, and those of them made in a given pass. *)
Gets(id) == hist[id]

GetsIn(id, attempt) == {k \in 1..Len(hist[id]) : hist[id][k].attempt = attempt}

IsResp(o, status) == o.kind = "resp" /\ o.status = status

Succeeded(o) == o.kind = "resp" /\ o.status < 400

(* C1: when every GET of a task returns status 500, download (attempt = 1) *)
(* makes exactly 4 passes over the task and stops; the task is then in the *)
(* returned fails, with status 500, and not in the returned successes.     *)
C1_Always500 ==
    Done =>
        \A id \in TaskIds :
            (\A k \in 1..Len(Gets(id)) : IsResp(Gets(id)[k], 500)) =>
                /\ Len(Gets(id)) = 4
                /\ \A a \in 1..4 : Cardinality(GetsIn(id, a)) = 1
                /\ \E k \in Occurrences(FinalFails, id) : FinalFails[k].status = 500
                /\ ~InList(FinalSuccesses, id)

(* C2: download (attempt = 1) terminates after at most 4 passes over the   *)
(* whole recursion, whatever the responses, and no task is fetched more    *)
(* than 4 times.  Termination: StepsLeft is a natural number that every    *)
(* step of the program decreases.                                          *)
StepsLeft ==
    IF pc # "run" THEN 0
    ELSE (4 - npass) * (Len(tasks) + 2)
         + Len(stack)
         + (IF Top.at = "fetch" THEN Len(Top.sources) - Top.i + 1 ELSE 0)

C2_BoundedPasses ==
    /\ [](npass <= 4 /\ StepsLeft >= 0 /\ \A id \in TaskIds : Len(Gets(id)) <= 4)
    /\ [][StepsLeft' < StepsLeft]_vars

C2_Witness ==
    /\ Done /\ npass = 4
    /\ \E id \in TaskIds : Len(Gets(id)) = 4

(* C3: a task whose GET returned 404 in some pass is not fetched in any    *)
(* later pass, and it is in the fails the top-level download returns.      *)
C3_NotFoundFinal ==
    \A id \in TaskIds :
        \A k \in 1..Len(Gets(id)) :
            IsResp(Gets(id)[k], 404) =>
                /\ k = Len(Gets(id))
                /\ Done => InList(FinalFails, id)

(* C4: the returned fails and successes are disjoint and hold every task   *)
(* of the batch exactly once, batches with a shared locator included.      *)
C4_Partition ==
    Done =>
        /\ \A id \in TaskIds :
               Cardinality(Occurrences(FinalFails, id))
                   + Cardinality(Occurrences(FinalSuccesses, id)) = 1
        /\ Len(FinalFails) + Len(FinalSuccesses) = Len(tasks)

(* C5: a task whose responses failed on the passes before pass k and       *)
(* succeeded on pass k (2 <= k <= 4) was fetched exactly k times, once in  *)
(* each of the passes 1..k with a status other than 404 before pass k, is  *)
(* in the returned successes and is not in the returned fails.             *)
C5_RetrySuccess ==
    Done =>
        \A id \in TaskIds : \A k \in 2..4 :
            (\E g \in GetsIn(id, k) : Succeeded(Gets(id)[g])) =>
                /\ Len(Gets(id)) = k
                /\ \A a \in 1..k : GetsIn(id, a) = {a}
                /\ \A a \in 1..(k - 1) :
                       ~Succeeded(Gets(id)[a]) /\ ~IsResp(Gets(id)[a], 404)
                /\ Cardinality(Occurrences(FinalSuccesses, id)) = 1
                /\ ~InList(FinalFails, id)

C5_Witness ==
    /\ Done
    /\ \E id \in TaskIds :
           /\ \E g \in GetsIn(id, 4) : Succeeded(Gets(id)[g])
           /\ InList(FinalSuccesses, id)
           /\ \E other \in TaskIds : other # id /\ InList(FinalFails, other)

(* C6: a GET that fails at the transport level lets no exception escape:   *)
(* the task gets a result without lfile and the call goes on.              *)
C6_TransportFailureRecovered ==
    \A id \in TaskIds :
        (\E k \in 1..Len(Gets(id)) : Gets(id)[k].kind = "conn_error") => pc # "raised"

(* C7: in every pass _download holds one result per task processed so far, *)
(* in the order of its input and with the task's own locator and file      *)
(* name, and returns one result per task of its input.                     *)
FrameReturned(f) == f.at = "call" \/ f.i = Len(f.sources)

C7_OneResultPerTask ==
    \A d \in 1..Len(stack) :
        LET f == stack[d]
        IN  /\ Len(f.results) = f.i
            /\ f.i <= Len(f.sources)
            /\ FrameReturned(f) => Len(f.results) = Len(f.sources)
            /\ \A j \in 1..Len(f.results) :
                   /\ f.results[j].url   = f.sources[j][1]
                   /\ f.results[j].rfile = f.sources[j][2]
                   /\ f.results[j].id    = f.ids[j]
                   /\ tasks[f.ids[j]]    = f.sources[j]

C7_Witness ==
    \E d \in 1..Len(stack) :
        LET f == stack[d]
        IN  /\ f.attempt >= 2
            /\ FrameReturned(f)
            /\ Len(f.results) = 2
            /\ f.results[1].status \in {401, 404}
            /\ f.results[2].status = 200

(* C8: every result has lfile set exactly when the response it was made    *)
(* from was successful; the returned fails have no lfile and a failing     *)
(* status, the returned successes have an lfile and a successful status.   *)
C8_LfileIffOk ==
    /\ \A d \in 1..Len(stack) :
           LET f == stack[d]
           IN  \A j \in 1..Len(f.results) :
                   LET r == f.results[j]
                   IN  \E g \in GetsIn(r.id, f.attempt) :
                           /\ Gets(r.id)[g].kind = "resp"
                           /\ Gets(r.id)[g].status = r.status
                           /\ (r.lfile # None) <=> Succeeded(Gets(r.id)[g])
    /\ ret # None =>
           /\ \A k \in 1..Len(FinalFails) :
                  FinalFails[k].lfile = None /\ FinalFails[k].status >= 400
           /\ \A k \in 1..Len(FinalSuccesses) :
                  FinalSuccesses[k].lfile # None /\ FinalSuccesses[k].status < 400

C8_Witness ==
    /\ Done
    /\ Len(FinalFails) >= 1
    /\ Len(FinalSuccesses) >= 1

(* The successful GETs in the order they were made: every one of them is   *)
(* followed by a wait() call.                                              *)
Writes == SelectSeq(calls, LAMBDA c : c.call = "wait")

WritePath(c) == Filename(DestDir, tasks[c.task][2])

(* The body of the response of task id in the given pass. *)
BodyOf(id, attempt) == Gets(id)[CHOOSE g \in GetsIn(id, attempt) : TRUE].body

(* The pass in which task id succeeded. *)
SuccessPass(id) == Gets(id)[Len(Gets(id))].attempt

(* The last successful GET written to a path. *)
LastWrite(path) ==
    LET ks == {k \in 1..Len(Writes) : WritePath(Writes[k]) = path}
    IN  Writes[CHOOSE k \in ks : \A other \in ks : other <= k]

(* C9 as stated: when download returns, the file of every returned success *)
(* holds the body of the response that result was made from, also when two *)
(* tasks of the batch have the same file name.                             *)
C9_FileHoldsOwnBody ==
    Done =>
        \A k \in 1..Len(FinalSuccesses) :
            LET s == FinalSuccesses[k]
            IN  disk[s.lfile] = BodyOf(s.id, SuccessPass(s.id))

(* C9, amended: when download returns, the file of every returned success  *)
(* holds exactly the body of the last successful response written to that  *)
(* path, whatever the file held before; it is the body of the result's own *)
(* response when no task with the same file name succeeded after it.       *)
C9_FileHoldsLastBody ==
    Done =>
        \A k \in 1..Len(FinalSuccesses) :
            LET s    == FinalSuccesses[k]
                last == LastWrite(s.lfile)
            IN  /\ disk[s.lfile] = BodyOf(last.task, last.attempt)
                /\ (last.task = s.id) => disk[s.lfile] = BodyOf(s.id, SuccessPass(s.id))

C9_Witness ==
    /\ Done
    /\ \E j, k \in 1..Len(FinalSuccesses) :
           /\ j # k
           /\ FinalSuccesses[j].lfile = FinalSuccesses[k].lfile
           /\ FinalSuccesses[j].lfile = Filename(DestDir, "f1")
           /\ BodyOf(FinalSuccesses[j].id, SuccessPass(FinalSuccesses[j].id))
                  # BodyOf(FinalSuccesses[k].id, SuccessPass(FinalSuccesses[k].id))

----------------------------------------------------------------------------
(* Properties of urls_for_range.                                           *)

(* The days from Monday to Friday in [start_date, end_date). *)
WorkDays == {d \in start_date..(end_date - 1) : weekday(d) \in 0..4}

RECURSIVE Ascending(_)
Ascending(S) ==
    IF S = {} THEN <<>>
    ELSE LET least == CHOOSE d \in S : \A e \in S : d <= e
         IN  <<least>> \o Ascending(S \ {least})

(* C10: urls_for_range(start_date, end_date) yields url_for_date(d) for    *)
(* exactly the days d of [start_date, end_date) from Monday to Friday, one *)
(* per day in ascending order, and nothing when there is no such day.      *)
C10_Weekdays ==
    LET days == Ascending(WorkDays)
    IN  /\ Len(yielded) <= Len(days)
        /\ \A k \in 1..Len(yielded) : yielded[k] = url_for_date(days[k])
        /\ gen = "stop" => Len(yielded) = Len(days)

C10_Witness ==
    /\ gen = "stop"
    /\ Len(yielded) >= 3
    /\ \E d \in start_date..(end_date - 1) : weekday(d) = 5
    /\ \E d \in start_date..(end_date - 1) : weekday(d) = 6
    /\ \E j, k \in 1..Len(yielded) : j < k /\ yielded[j][2][4] # yielded[k][2][4]

----------------------------------------------------------------------------
(* yahoo.py, class YahooSource, and the for loop header of _download taking *)
(* the items a source yields.  Python strings are TLA+ strings: Len and \o *)
(* are their length and their concatenation.                               *)

Digit == <<"0", "1", "2", "3", "4", "5", "6", "7", "8", "9">>

(* str(n), as the % and urlencode formatting of an int produce it.         *)
RECURSIVE IntToStr(_)
IntToStr(n) == IF n < 10 THEN Digit[n + 1] ELSE IntToStr(n \div 10) \o Digit[(n % 10) + 1]

Symbols == {"KOTAKBANK.BO", "SBIN.BO"}

YahooSource(symbol) ==
    [class |-> "YahooSource", symbol |-> symbol, url_root |-> "http://real-chart.finance.yahoo.com"]

yahoo_file_type_prefix == "table"
yahoo_file_type_suffix == ".csv"

(* YahooSource.urls_for_range, lines 17-27: params, as (key, value) pairs. *)
(* Python 2 orders a dict's keys by their hashes; the order of the literal *)
(* stands for that order.                                                  *)
yahoo_params(self, start, end) ==
    << <<"s", self.symbol>>,
       <<"a", IntToStr(MonthOf(start) - 1)>>,
       <<"b", IntToStr(DayOf(start))>>,
       <<"c", IntToStr(YearOf(start))>>,
       <<"d", IntToStr(MonthOf(end) - 1)>>,
       <<"e", IntToStr(DayOf(end))>>,
       <<"f", IntToStr(YearOf(end))>>,
       <<"g", "d">>,
       <<"ignore", ".csv">> >>

(* urllib.urlencode(params): key=value joined by &; no character of these  *)
(* keys and values needs quoting.                                          *)
RECURSIVE urlencode(_)
urlencode(params) ==
    IF params = <<>> THEN ""
    ELSE params[1][1] \o "=" \o params[1][2]
         \o (IF Len(params) > 1 THEN "&" ELSE "") \o urlencode(Tail(params))

(* YahooSource.urls_for_range, lines 28-32: the one item it yields.        *)
yahoo_url(self, start, end) ==
    self.url_root \o "/" \o yahoo_file_type_prefix \o yahoo_file_type_suffix
        \o "?" \o urlencode(yahoo_params(self, start, end))

(* _download, line 124: for i, (item, dated_file) in enumerate(sources).   *)
(* The target (item, dated_file) takes a value that iterates to exactly    *)
(* two elements; any other length raises ValueError.                       *)
UnpackLen == 2
CanUnpack(x) == Len(x) = UnpackLen

Feeding == pc = "feed"

NextItem == yielded[Len(unpacked) + 1]

(* EquitySource: Source.urls_for_range, resumed by the for loop.           *)
FeedEquity ==
    /\ Feeding
    /\ source.class = "EquitySource"
    /\ (GenYield \/ GenSkip \/ GenStop)

(* YahooSource.urls_for_range: the single yield ...                        *)
YahooYield ==
    /\ Feeding
    /\ source.class = "YahooSource"
    /\ gen = "run"
    /\ yielded = <<>>
    /\ yielded' = <<yahoo_url(source, start_date, end_date)>>
    /\ UNCHANGED <<start_date, end_date, current_date, gen, dlvars, feedvars>>

(* ... and the end of the generator.                                       *)
YahooStop ==
    /\ Feeding
    /\ source.class = "YahooSource"
    /\ gen = "run"
    /\ yielded # <<>>
    /\ gen' = "stop"
    /\ UNCHANGED <<start_date, end_date, current_date, yielded, dlvars, feedvars>>

(* _download, line 124: the loop takes the next item as one task ...       *)
UnpackTask ==
    /\ Feeding
    /\ Len(unpacked) < Len(yielded)
    /\ CanUnpack(NextItem)
    /\ unpacked' = Append(unpacked, <<NextItem[1], NextItem[2]>>)
    /\ UNCHANGED <<source, exp_back, srcvars, dlvars>>

(* ... or the unpacking raises ValueError, which nothing catches.          *)
UnpackError ==
    /\ Feeding
    /\ Len(unpacked) < Len(yielded)
    /\ ~CanUnpack(NextItem)
    /\ pc' = "raised"
    /\ UNCHANGED <<codes, tasks, stack, ret, disk, out, hist, npass, calls, srcvars, feedvars>>

(* SpecFeed: the items of source.urls_for_range(start_date, end_date), for *)
(* either concrete source, taken by the for loop of _download.             *)
InitFeed ==
    /\ source \in {EquitySource} \cup {YahooSource(symbol) : symbol \in Symbols}
    /\ start_date \in Dates
    /\ end_date \in Dates
    /\ current_date = start_date
    /\ yielded = <<>>
    /\ gen = "run"
    /\ unpacked = <<>>
    /\ exp_back = NoBackoff
    /\ codes = {} /\ tasks = <<>> /\ stack = <<>> /\ ret = None /\ pc = "feed"
    /\ disk = InitialDisk /\ out = <<>> /\ hist = <<>> /\ npass = 0 /\ calls = <<>>

NextFeed == FeedEquity \/ YahooYield \/ YahooStop \/ UnpackTask \/ UnpackError

SpecFeed == InitFeed /\ [][NextFeed]_vars

(* C11: every item yielded by urls_for_range of EquitySource and of        *)
(* YahooSource is a pair (locator, file name), which the for loop of       *)
(* _download takes as one task without raising.                            *)
C11_ItemsAreTasks ==
    /\ \A k \in 1..Len(yielded) : Len(yielded[k]) = 2
    /\ pc # "raised"
    /\ \A k \in 1..Len(unpacked) : unpacked[k] = yielded[k]

----------------------------------------------------------------------------
(* Properties of the backoff controller inside download.                   *)

(* The calls of backoff() or wait() made for task id in the given pass.    *)
CallsFor(name, id, attempt) ==
    {k \in 1..Len(calls) :
        calls[k].call = name /\ calls[k].task = id /\ calls[k].attempt = attempt}

(* A response arrived and was successful (whether or not its body could be *)
(* written), resp. arrived and was not successful.                         *)
GotOk(o)     == o.kind \in {"resp", "io_error"} /\ o.status < 400
GotFailed(o) == o.kind = "resp" /\ o.status >= 400

(* C12 as stated: in a pass, backoff() is invoked for a task exactly when  *)
(* its response is unsuccessful with status 401 and wait() exactly when    *)
(* its response is successful; no task gets both.                          *)
C12_CallsMatchResponses ==
    \A id \in TaskIds : \A g \in 1..Len(Gets(id)) :
        LET o  == Gets(id)[g]
            nb == Cardinality(CallsFor("backoff", id, o.attempt))
            nw == Cardinality(CallsFor("wait", id, o.attempt))
        IN  /\ nb = (IF GotFailed(o) /\ o.status = 401 THEN 1 ELSE 0)
            /\ nw = (IF GotOk(o) THEN 1 ELSE 0)
            /\ nb + nw <= 1

(* C12, amended: wait() is invoked exactly when the response is successful *)
(* and its body has been written to the destination file.                  *)
C12_CallsMatchWrittenResponses ==
    /\ \A id \in TaskIds : \A g \in 1..Len(Gets(id)) :
           LET o  == Gets(id)[g]
               nb == Cardinality(CallsFor("backoff", id, o.attempt))
               nw == Cardinality(CallsFor("wait", id, o.attempt))
           IN  /\ nb = (IF GotFailed(o) /\ o.status = 401 THEN 1 ELSE 0)
               /\ nw = (IF Succeeded(o) THEN 1 ELSE 0)
               /\ nb + nw <= 1
    /\ \A k \in 1..Len(calls) :
           \E g \in GetsIn(calls[k].task, calls[k].attempt) : TRUE

C12_Witness ==
    \E a \in 2..4 : \E id, other \in TaskIds :
        /\ CallsFor("backoff", id, a) # {}
        /\ CallsFor("wait", other, a) # {}
        /\ \E third \in TaskIds : \E g \in 1..Len(Gets(third)) : IsResp(Gets(third)[g], 404)

(* C13: every pass, the retry passes included, starts with a controller of *)
(* its own whose count is 0, so the first backoff() of a pass sleeps the   *)
(* base interval of 0.5 s, whatever the earlier passes received.           *)
FirstBackoffOfPass(k) ==
    /\ calls[k].call = "backoff"
    /\ \A j \in 1..(k - 1) :
           ~(calls[j].call = "backoff" /\ calls[j].attempt = calls[k].attempt)

C13_FreshBackoffPerPass ==
    /\ \A d \in 1..Len(stack) :
           stack[d].i = 0 => stack[d].exp_back = [count |-> <<0>>, start |-> 500, limit |-> 64000]
    /\ \A k \in 1..Len(calls) :
           FirstBackoffOfPass(k) =>
               /\ calls[k].eb.count = <<0>>
               /\ calls[k].slept
               /\ interval(calls[k].eb) = 500

C13_Witness ==
    \E k \in 1..Len(calls) :
        /\ FirstBackoffOfPass(k)
        /\ calls[k].attempt >= 2
        /\ Cardinality({j \in 1..(k - 1) : calls[j].call = "backoff"
                                            /\ calls[j].attempt = calls[k].attempt - 1}) >= 2
        /\ \E j \in 1..(k - 1) : calls[j].call = "wait" /\ calls[j].attempt = calls[k].attempt

----------------------------------------------------------------------------
(* SpecBackoff: one ExponentialBackoff(start, limit) object and any        *)
(* sequence of at most MaxCalls calls of backoff() and wait() on it.       *)

BackoffParams ==
    {<<ExpBackStart, ExpBackLimit>>, <<1000, 3000>>, <<300, 300>>, <<WaitFloor, ExpBackLimit>>}

DoBackoff ==
    /\ pc = "backoff"
    /\ Len(calls) < MaxCalls
    /\ calls' = Append(calls, Call("backoff", exp_back, backoff_sleep(exp_back), TRUE, 0, 0))
    /\ exp_back' = backoff(exp_back)
    /\ UNCHANGED <<codes, tasks, stack, ret, pc, disk, out, hist, npass, srcvars, source, unpacked>>

DoWait ==
    /\ pc = "backoff"
    /\ Len(calls) < MaxCalls
    /\ calls' = Append(calls, Call("wait", exp_back, wait_sleep(exp_back), wait_sleeps(exp_back), 0, 0))
    /\ exp_back' = wait(exp_back)
    /\ UNCHANGED <<codes, tasks, stack, ret, pc, disk, out, hist, npass, srcvars, source, unpacked>>

InitBackoff ==
    /\ \E p \in BackoffParams : exp_back = ExponentialBackoff(p[1], p[2])
    /\ calls = <<>>
    /\ pc = "backoff"
    /\ codes = {} /\ tasks = <<>> /\ stack = <<>> /\ ret = None
    /\ disk = InitialDisk /\ out = <<>> /\ hist = <<>> /\ npass = 0
    /\ start_date = 0 /\ end_date = 0 /\ current_date = 0
    /\ yielded = <<>> /\ gen = "idle"
    /\ source = NoSource /\ unpacked = <<>>

NextBackoff == DoBackoff \/ DoWait

SpecBackoff == InitBackoff /\ [][NextBackoff]_vars

RECURSIVE Pow2(_)
Pow2(n) == IF n = 0 THEN 1 ELSE 2 * Pow2(n - 1)

IsBackoff(k) == calls[k].call = "backoff"

(* The calls made so far are all backoff() calls. *)
OnlyBackoffs == \A k \in 1..Len(calls) : IsBackoff(k)

(* C14: interval is min(limit, start * 2^count); over a sequence of        *)
(* backoff() calls the sleeps never decrease and never exceed limit, each  *)
(* being the interval of the count the call found: with start 0.5 s and    *)
(* limit 64 s they are 0.5, 1, 2, .., 32, 64, 64, .. seconds.              *)
C14_BackoffIntervals ==
    /\ \A k \in 1..Len(calls) :
           (IsBackoff(k) /\ CountIsInt(calls[k].eb.count)) =>
               LET eb == calls[k].eb
                   n  == eb.count[1]
               IN  /\ calls[k].sleep = Min(eb.limit, eb.start * Pow2(n))
                   /\ calls[k].sleep <= eb.limit
                   /\ interval(eb) = calls[k].sleep
    /\ OnlyBackoffs =>
           /\ \A k \in 1..Len(calls) : calls[k].eb.count = <<k - 1>>
           /\ \A k \in 2..Len(calls) : calls[k - 1].sleep <= calls[k].sleep
           /\ (exp_back.start = 500 /\ exp_back.limit = 64000) =>
                  \A k \in 1..Len(calls) :
                      calls[k].sleep = (IF k <= 7 THEN 500 * Pow2(k - 1) ELSE 64000)

C14_Witness ==
    /\ OnlyBackoffs
    /\ Len(calls) >= 10
    /\ exp_back.start = 500 /\ exp_back.limit = 64000
    /\ calls[7].sleep = 32000 /\ calls[8].sleep = 64000 /\ calls[10].sleep = 64000

(* The controller as call k left it. *)
After(k) == IF k < Len(calls) THEN calls[k + 1].eb ELSE exp_back

(* count * 0.8705^k, on the coefficients of count. *)
RECURSIVE Decayed(_, _)
Decayed(c, k) == IF k = 0 THEN c ELSE <<0>> \o Decayed(c, k - 1)

(* The calls j .. j+k-1 are wait() calls that slept. *)
SleepingWaits(j, k) ==
    \A m \in j..(j + k - 1) : calls[m].call = "wait" /\ calls[m].slept

(* C15: after k consecutive wait() calls whose delay start*count exceeded  *)
(* the floor of 0.01 s, count is count0 * 0.8705^k; a wait() whose delay   *)
(* does not exceed the floor neither sleeps nor changes count.             *)
C15_WaitDecay ==
    /\ \A j \in 1..Len(calls) : \A k \in 1..(Len(calls) - j + 1) :
           SleepingWaits(j, k) =>
               LET count0 == calls[j].eb.count
                   count  == After(j + k - 1).count
               IN  /\ count = Decayed(count0, k)
                   /\ CountIsInt(count0) =>
                          CountScaled(count) = count0[1] * DecayPow(k)
    /\ \A m \in 1..Len(calls) :
           calls[m].call = "wait" =>
               LET eb    == calls[m].eb
                   above == eb.start * CountScaled(eb.count) > 10 * 10000
               IN  /\ calls[m].slept <=> above
                   /\ above => calls[m].sleep = eb.start * CountScaled(eb.count)
                   /\ ~above => (calls[m].sleep = 0 /\ After(m) = eb)

C15_Witness ==
    /\ \E j \in 1..Len(calls) :
           /\ j + 5 <= Len(calls)
           /\ SleepingWaits(j, 5)
           /\ calls[j].eb.count = <<2>>
           /\ CountScaled(After(j + 4).count) < 10000
           /\ calls[j + 5].call = "wait" /\ ~calls[j + 5].slept
    /\ exp_back.start = 10

----------------------------------------------------------------------------
(* Properties of the retry passes.                                         *)

(* The results of a pass that go to the next one: no local path and a      *)
(* status other than 404, in the order of the results.                     *)
ToRetry(results) == SelectSeq(results, LAMBDA r : r.lfile = None /\ r.status # 404)

(* Task id received a successful response and its file was written in a    *)
(* pass before the given one.                                              *)
SucceededBefore(id, attempt) ==
    \E g \in 1..Len(Gets(id)) : Succeeded(Gets(id)[g]) /\ Gets(id)[g].attempt < attempt

(* C16: the batch of pass k+1 is exactly the results of pass k that have   *)
(* no local path and a status other than 404, in the same order and with   *)
(* the same locator and file name; a task that succeeded in an earlier     *)
(* pass is never fetched again; when no such result exists no further pass *)
(* is run.                                                                 *)
C16_RetryBatch ==
    /\ \A d \in 2..Len(stack) :
           LET prev  == stack[d - 1]
               batch == ToRetry(prev.results)
           IN  /\ prev.at = "call" /\ prev.i = Len(prev.sources)
               /\ stack[d].attempt = prev.attempt + 1
               /\ batch # <<>>
               /\ Len(stack[d].sources) = Len(batch)
               /\ \A k \in 1..Len(batch) :
                      /\ stack[d].sources[k] = <<batch[k].url, batch[k].rfile>>
                      /\ stack[d].ids[k] = batch[k].id
    /\ \A id \in TaskIds : \A g \in 1..Len(Gets(id)) :
           ~SucceededBefore(id, Gets(id)[g].attempt)
    /\ \A id \in TaskIds : \A g \in 1..Len(Gets(id)) :
           Gets(id)[g].attempt > 1 =>
               \E h \in GetsIn(id, Gets(id)[g].attempt - 1) :
                   /\ Gets(id)[h].kind = "resp"
                   /\ Gets(id)[h].status >= 400 /\ Gets(id)[h].status # 404

C16_Witness ==
    /\ Len(stack) = 3
    /\ Len(stack[1].sources) = 2 /\ stack[2].ids = <<1, 2>>
    /\ stack[2].results[1].status = NotFound
    /\ stack[3].ids = <<2>>
    /\ stack[3].sources = <<tasks[2]>>

(* The run raised out of download while task id's successful response was  *)
(* being written, in pass attempt.                                         *)
IOErrored(id, attempt) ==
    \E g \in 1..Len(Gets(id)) :
        Gets(id)[g].kind = "io_error" /\ Gets(id)[g].attempt = attempt

(* C17: when opening or writing the destination file fails the error       *)
(* propagates out of download: no result is made of it, no later task of   *)
(* the batch is fetched, no retry pass is started and no (fails,           *)
(* successes) partition is returned.                                       *)
C17_IOErrorPropagates ==
    \A id \in TaskIds : \A a \in 1..(MaxRetryAttempt + 1) :
        IOErrored(id, a) =>
            /\ pc = "raised" /\ stack = <<>> /\ ret = None
            /\ Last(Gets(id)).kind = "io_error"
            /\ Cardinality({g \in 1..Len(Gets(id)) : Gets(id)[g].kind = "io_error"}) = 1
            /\ \A later \in TaskIds : later > id => GetsIn(later, a) = {}
            /\ \A other \in TaskIds : \A g \in 1..Len(Gets(other)) : Gets(other)[g].attempt <= a
            /\ npass = a
            /\ ~\E k \in 1..Len(out) : out[k][1] = "Downloaded"

C17_Witness ==
    /\ Len(tasks) = 2
    /\ IOErrored(1, 2)
    /\ IsResp(Gets(2)[1], 500)
    /\ Len(Gets(2)) = 1
    /\ disk[Filename(DestDir, tasks[1][2])] = Partial

----------------------------------------------------------------------------
(* Properties of the summary line and of the returned fails.               *)

(* The positions of the summary lines in the output. *)
SummaryLines == {k \in 1..Len(out) : out[k][1] = "Downloaded"}

(* C18 as stated: a top-level download call emits exactly one summary line *)
(* 'Downloaded N files, S success, F failed', after all passes, where N is *)
(* the size of the original batch, S and F are the lengths of the returned *)
(* successes and fails, and N = S + F.                                     *)
C18_OneSummaryLine ==
    Done =>
        /\ SummaryLines = {Len(out)}
        /\ Last(out) = <<"Downloaded", Len(tasks), Len(FinalSuccesses), Len(FinalFails)>>
        /\ Len(tasks) = Len(FinalSuccesses) + Len(FinalFails)

(* The response task id received in the first pass. *)
FirstPass(id) == Gets(id)[1]

(* C19: every result in the fails that the top-level download returns has  *)
(* the status of its task's first-pass response, not of its last attempt:  *)
(* a task answering 500 in pass 1 and 404 in pass 2 is returned with 500.   *)
C19_FailsCarryFirstStatus ==
    Done =>
        \A k \in 1..Len(FinalFails) :
            LET f == FinalFails[k]
            IN  /\ Gets(f.id) # <<>>
                /\ FirstPass(f.id).attempt = 1
                /\ FirstPass(f.id).kind = "resp"
                /\ f.status = FirstPass(f.id).status
                /\ f.url = tasks[f.id][1] /\ f.rfile = tasks[f.id][2]
                /\ (IsResp(FirstPass(f.id), 500) /\ Len(Gets(f.id)) >= 2
                        /\ IsResp(Gets(f.id)[2], NotFound)) => f.status = 500

C19_Witness ==
    /\ Done
    /\ \E k \in 1..Len(FinalFails) :
           LET f == FinalFails[k]
           IN  /\ f.status = 500
               /\ Len(Gets(f.id)) = 2
               /\ IsResp(Gets(f.id)[1], 500)
               /\ IsResp(Gets(f.id)[2], NotFound)
               /\ Gets(f.id)[2].attempt = 2

----------------------------------------------------------------------------
(* The backoff count inside download.                                      *)

(* No response of the given pass has had status 401. *)
NoRateLimit(attempt) ==
    \A id \in TaskIds : \A g \in GetsIn(id, attempt) : ~IsResp(Gets(id)[g], 401)

(* count, a sum of c[k] * 0.8705^(k-1), is not negative. *)
CountNotNegative(c) == \A k \in 1..Len(c) : c[k] >= 0

(* C20: the backoff count is never negative; in a pass in which no         *)
(* response has status 401 the count stays 0 for the whole pass and        *)
(* neither backoff() nor wait() sleeps, whatever the successes and the     *)
(* other failures of the pass.                                             *)
C20_CountStaysZero ==
    /\ \A d \in 1..Len(stack) : CountNotNegative(stack[d].exp_back.count)
    /\ \A k \in 1..Len(calls) : CountNotNegative(calls[k].eb.count)
    /\ \A d \in 1..Len(stack) :
           (stack[d].at = "fetch" /\ NoRateLimit(stack[d].attempt)) =>
               stack[d].exp_back.count = <<0>>
    /\ \A k \in 1..Len(calls) :
           NoRateLimit(calls[k].attempt) =>
               /\ calls[k].call = "wait"
               /\ calls[k].eb.count = <<0>>
               /\ ~calls[k].slept /\ calls[k].sleep = 0

C20_Witness ==
    /\ Len(stack) = 2 /\ Top.attempt = 2 /\ Top.i = 2
    /\ NoRateLimit(1) /\ NoRateLimit(2)
    /\ IsResp(Gets(1)[2], 200) /\ IsResp(Gets(2)[2], 500)
    /\ Top.exp_back.count = <<0>>
    /\ Cardinality(CallsFor("wait", 1, 2)) = 1

====
